---- MODULE Spec2Model ----
(***************************************************************************)
(* A model of the flat-buffer Sparse Merkle Tree backend of                *)
(* src/src/state.rs (InMemoryBackend): a chunk buffer `db`, a skip-count   *)
(* table `offsets`, the tree `height`, and the operations lookup / get /   *)
(* update / root (helper) / add_value / sub_value / inc_nonce.             *)
(*                                                                         *)
(* Representation.                                                         *)
(*  - A chunk (H256) is a sequence of 32 bytes.                            *)
(*  - A u64 is a numeral of 8 base-256 digits, most significant first;     *)
(*    from_le_bytes / to_le_bytes reverse the byte order, and              *)
(*    overflowing_add / overflowing_sub ripple a carry / borrow through    *)
(*    the digits and wrap like the machine operation does.                 *)
(*  - The skip-count table is kept as its u64 words (one number per        *)
(*    8-byte little-endian entry); entry p of the table is bytes           *)
(*    [8p, 8p+8) of the byte slice the code holds.                         *)
(*  - hash is a free constructor (two digests are equal iff their inputs   *)
(*    are): a collision-free compression function.                         *)
(*  - A slice access out of range panics (arrayref / slice indexing are    *)
(*    bounds checked); a panic ends the run.                               *)
(*  - root reinterprets the table's bytes as u64 words through a raw       *)
(*    pointer (slice::from_raw_parts).  On a table that does not start at  *)
(*    an 8-byte boundary that is undefined behaviour: the build either     *)
(*    reads the words all the same or stops in the precondition check of   *)
(*    from_raw_parts, and the model allows both.  The words are read in    *)
(*    the target's byte order; the model is of a little-endian target,     *)
(*    where they are the words lookup decodes with from_le_bytes.          *)
(*  - Skip counts and positions stay far below 2^64, so the u64 additions  *)
(*    of lookup and helper do not wrap.                                    *)
(***************************************************************************)
EXTENDS Integers, Sequences, FiniteSets, TLC

VARIABLES
    height,   \* InMemoryBackend.height
    offsets,  \* InMemoryBackend.offsets, as u64 words
    db,       \* InMemoryBackend.db, as a sequence of 32-byte chunks
    aligned,  \* whether the table handed to `new` starts at an 8-byte boundary
    indexes,  \* ghost: the tree index of the node each chunk of db belongs to
    db0,      \* ghost: db as it was loaded
    before,   \* ghost: db as it was when the last call was made
    last,     \* ghost: the most recent call, its arguments and its result
    added,    \* ghost: the successful add_value made just before the last call
    incs,     \* ghost: per address, the number of successful inc_nonce calls
    clean,    \* ghost: every call so far addressed a loaded account
    nops      \* ghost: number of calls made

vars == <<height, offsets, db, aligned, indexes, db0, before, last, added, incs, clean, nops>>

----------------------------------------------------------------------------
(* Bounds of the model *)

\* most chunks in a loaded proof
MaxChunks == 6
\* most calls made on one backend
MaxOps == 2
\* greatest tree height
MaxHeight == 1

(* Sizes fixed by the program *)

\* bytes of a chunk (H256)
ChunkBytes == 32
\* bytes of a u64
U64Bytes == 8

----------------------------------------------------------------------------
(* u64 numerals: 8 base-256 digits, most significant first *)

U64Zero == [i \in 1..U64Bytes |-> 0]
U64Max == [i \in 1..U64Bytes |-> 255]

\* the numeral of a small number n < 65536
Lo(n) == [i \in 1..U64Bytes |->
            IF i = U64Bytes THEN n % 256
            ELSE IF i = U64Bytes - 1 THEN n \div 256 ELSE 0]

\* the numeral of 2^64 - 1 - n, for a small number n < 65536
Hi(n) == [i \in 1..U64Bytes |-> 255 - Lo(n)[i]]

from_le_bytes(b) == [i \in 1..U64Bytes |-> b[U64Bytes + 1 - i]]

to_le_bytes(v) == [i \in 1..U64Bytes |-> v[U64Bytes + 1 - i]]

RECURSIVE CarryInto(_, _, _)
\* the carry into digit i of x + y
CarryInto(x, y, i) ==
    IF i = U64Bytes THEN 0
    ELSE (x[i + 1] + y[i + 1] + CarryInto(x, y, i + 1)) \div 256

\* u64::overflowing_add: the wrapped sum and whether it wrapped
overflowing_add(x, y) ==
    [value |-> [i \in 1..U64Bytes |-> (x[i] + y[i] + CarryInto(x, y, i)) % 256],
     overflow |-> (x[1] + y[1] + CarryInto(x, y, 1)) >= 256]

\* overflowing_sub with the borrow between bytes dropped
overflowing_sub_no_borrow(x, y) ==
    [value |-> [i \in 1..U64Bytes |-> (x[i] - y[i] + 256) % 256],
     overflow |-> x[1] - y[1] < 0]

RECURSIVE BorrowFrom(_, _, _)
\* the borrow taken from digit i by x - y
BorrowFrom(x, y, i) ==
    IF i = U64Bytes THEN 0
    ELSE IF x[i + 1] - y[i + 1] - BorrowFrom(x, y, i + 1) < 0 THEN 1 ELSE 0

\* u64::overflowing_sub: the wrapped difference and whether it wrapped
overflowing_sub(x, y) ==
    [value |-> [i \in 1..U64Bytes |->
                   (x[i] - y[i] - BorrowFrom(x, y, i) + 256) % 256],
     overflow |-> (x[1] - y[1] - BorrowFrom(x, y, 1)) < 0]

----------------------------------------------------------------------------
(* Chunks *)

\* ValueChunk with the u64 written most significant byte first
ValueChunkBigEndian(v) ==
    [i \in 1..ChunkBytes |-> IF i <= U64Bytes THEN v[i] ELSE 0]

\* H256::new of a zeroed buffer with a u64 in its low 8 bytes
\* (`let mut buf = [0u8; 32]; buf[0..8].copy_from_slice(&value.to_le_bytes())`)
ValueChunk(v) ==
    [i \in 1..ChunkBytes |-> IF i <= U64Bytes THEN to_le_bytes(v)[i] ELSE 0]

\* `u64::from_le_bytes(*array_ref![chunk.as_bytes(), 0, 8])`
ChunkValue(chunk) == from_le_bytes(SubSeq(chunk, 1, U64Bytes))

\* a digest-like chunk: its upper 24 bytes are not zero
DigestChunk(v) ==
    [i \in 1..ChunkBytes |-> IF i <= U64Bytes THEN to_le_bytes(v)[i] ELSE 16 + i]

\* hash(buf): the digest of left || right
hash(left, right) == <<"hash", left, right>>

----------------------------------------------------------------------------
(* Partial trees and their structural encoding *)

Leaf == <<>>

IsLeaf(t) == Len(t) = 0

RECURSIVE NLeaves(_)
NLeaves(t) == IF IsLeaf(t) THEN 1 ELSE NLeaves(t[1]) + NLeaves(t[2])

RECURSIVE Trees(_, _)
\* the binary trees of depth <= d with at most n leaves
Trees(d, n) ==
    IF d = 0 \/ n < 2 THEN {Leaf}
    ELSE {Leaf} \cup
         UNION {{<<l, r>> : r \in Trees(d - 1, n - NLeaves(l))} :
                   l \in Trees(d - 1, n - 1)}

RECURSIVE SkipCounts(_)
\* pre-order over internal nodes: the number of chunks in the left subtree
SkipCounts(t) ==
    IF IsLeaf(t) THEN <<>>
    ELSE <<NLeaves(t[1])>> \o SkipCounts(t[1]) \o SkipCounts(t[2])

RECURSIVE LeafIndexes(_, _)
\* the tree indexes of the leaves of t, left to right, t rooted at index g
LeafIndexes(t, g) ==
    IF IsLeaf(t) THEN <<g>>
    ELSE LeafIndexes(t[1], 2 * g) \o LeafIndexes(t[2], 2 * g + 1)

----------------------------------------------------------------------------
(* InMemoryBackend: lookup, get, update *)

\* bit k of index: `(index >> k) & 1`
Bit(index, k) == (index \div (2 ^ k)) % 2

RECURSIVE LookupFromShort(_, _, _, _, _, _)
\* LookupFrom with the loop one iteration short (`1..(self.height + 3)`)
LookupFromShort(offs, h, index, i, position, offset) ==
    IF i > h + 2 THEN [panic |-> FALSE, offset |-> offset]
    ELSE IF Bit(index, h + 3 - i) = 0
         THEN LookupFromShort(offs, h, index, i + 1, position + 1, offset)
         ELSE IF position + 1 > Len(offs)
              THEN [panic |-> TRUE, offset |-> offset]
              ELSE LookupFromShort(offs, h, index, i + 1,
                                   position + offs[position + 1],
                                   offset + offs[position + 1])

RECURSIVE LookupFrom(_, _, _, _, _, _)
\* the loop of lookup from iteration i on; reading a table entry that is
\* not there panics
LookupFrom(offs, h, index, i, position, offset) ==
    IF i > h + 3 THEN [panic |-> FALSE, offset |-> offset]
    ELSE IF Bit(index, h + 3 - i) = 0
         THEN LookupFrom(offs, h, index, i + 1, position + 1, offset)
         ELSE IF position + 1 > Len(offs)
              THEN [panic |-> TRUE, offset |-> offset]
              ELSE LookupFrom(offs, h, index, i + 1,
                              position + offs[position + 1],
                              offset + offs[position + 1])

\* InMemoryBackend::lookup: the chunk position (0-based) of `index`
lookup(offs, h, index) == LookupFrom(offs, h, index, 1, 0, 0)

\* InMemoryBackend::get: the chunk at lookup(index); a position outside
\* the buffer panics
get(offs, chunks, h, index) ==
    LET l == lookup(offs, h, index) IN
    IF l.panic \/ l.offset + 1 > Len(chunks)
    THEN [panic |-> TRUE, offset |-> l.offset, chunk |-> <<>>]
    ELSE [panic |-> FALSE, offset |-> l.offset, chunk |-> chunks[l.offset + 1]]

\* InMemoryBackend::update: the buffer with the chunk at lookup(index)
\* overwritten (called only after get succeeded on the same index)
update(offs, chunks, h, index, value) ==
    LET l == lookup(offs, h, index) IN
    [chunks EXCEPT ![l.offset + 1] = value]

----------------------------------------------------------------------------
(* helper and root *)

RECURSIVE helper_right_next(_, _, _)
\* helper with the right subtree started at offset + 1 instead of at
\* offsets[0] + offset
helper_right_next(proof, offs, offset) ==
    IF Len(offs) = 0
    THEN IF offset + 1 > Len(proof)
         THEN [panic |-> TRUE, root |-> <<>>]
         ELSE [panic |-> FALSE, root |-> proof[offset + 1]]
    ELSE IF offset + 2 > Len(proof)
    THEN [panic |-> TRUE, root |-> <<>>]
    ELSE
      LET left == IF offs[1] # 1
                  THEN IF offs[1] >= 1 /\ offs[1] <= Len(offs)
                       THEN helper_right_next(proof, SubSeq(offs, 2, offs[1]), offset)
                       ELSE [panic |-> TRUE, root |-> <<>>]
                  ELSE [panic |-> FALSE, root |-> proof[offset + 1]]
      IN
      IF left.panic THEN [panic |-> TRUE, root |-> <<>>]
      ELSE
        LET right == IF Len(offs) # 1
                     THEN IF offs[1] <= Len(offs)
                          THEN helper_right_next(proof,
                                      SubSeq(offs, offs[1] + 1, Len(offs)),
                                      offset + 1)
                          ELSE [panic |-> TRUE, root |-> <<>>]
                     ELSE [panic |-> FALSE, root |-> proof[offset + 2]]
        IN
        IF right.panic THEN [panic |-> TRUE, root |-> <<>>]
        ELSE [panic |-> FALSE, root |-> hash(left.root, right.root)]

RECURSIVE helper(_, _, _)
\* the root of the subtree whose skip counts are offs and whose first
\* chunk is at position offset (0-based) of proof
helper(proof, offs, offset) ==
    IF Len(offs) = 0
    THEN IF offset + 1 > Len(proof)
         THEN [panic |-> TRUE, root |-> <<>>]
         ELSE [panic |-> FALSE, root |-> proof[offset + 1]]
    ELSE IF offset + 2 > Len(proof)
    THEN [panic |-> TRUE, root |-> <<>>]
    ELSE
      LET left0 == proof[offset + 1]
          right0 == proof[offset + 2]
          \* `&offsets[1..offsets[0] as usize]`
          leftOk == offs[1] >= 1 /\ offs[1] <= Len(offs)
          left == IF offs[1] # 1
                  THEN IF leftOk
                       THEN helper(proof, SubSeq(offs, 2, offs[1]), offset)
                       ELSE [panic |-> TRUE, root |-> <<>>]
                  ELSE [panic |-> FALSE, root |-> left0]
      IN
      IF left.panic THEN [panic |-> TRUE, root |-> <<>>]
      ELSE
        LET \* `&offsets[offsets[0] as usize..]`
            right == IF Len(offs) # 1
                     THEN IF offs[1] <= Len(offs)
                          THEN helper(proof,
                                      SubSeq(offs, offs[1] + 1, Len(offs)),
                                      offs[1] + offset)
                          ELSE [panic |-> TRUE, root |-> <<>>]
                     ELSE [panic |-> FALSE, root |-> right0]
        IN
        IF right.panic THEN [panic |-> TRUE, root |-> <<>>]
        ELSE [panic |-> FALSE, root |-> hash(left.root, right.root)]

\* InMemoryBackend::root, on a table that from_raw_parts reads as its words
root(offs, chunks) == helper(chunks, offs, 0)

\* what InMemoryBackend::root can do: on a table that is not aligned
\* from_raw_parts may also stop the program
RootOutcomes(offs, chunks, al) ==
    IF al THEN {root(offs, chunks)}
    ELSE {root(offs, chunks), [panic |-> TRUE, root |-> <<>>]}

----------------------------------------------------------------------------
(* add_value, sub_value, inc_nonce *)

\* value_index with the nonce's offset 3 in place of the balance's 2
value_index_of_nonce(h, address) == ((((2 ^ h) + address) * 4) + 3) * 2

\* `((((U264::one() << self.height) + address.into()) << 2) + 2.into()) << 1`
value_index(h, address) == ((((2 ^ h) + address) * 4) + 2) * 2

\* nonce_index with the balance's offset 2 in place of the nonce's 3
nonce_index_of_value(h, address) == ((((2 ^ h) + address) * 4) + 2) * 2

\* `((((U264::one() << self.height) + address.into()) << 2) + 3.into()) << 1`
nonce_index(h, address) == ((((2 ^ h) + address) * 4) + 3) * 2

\* the outcome of a call: what it returns and the buffer it leaves
Panicked(chunks) ==
    [kind |-> "Panic", val |-> U64Zero, chunks |-> chunks]

\* Outcome with the wrapped result written before the overflow flag is
\* looked at
OutcomeWriteFirst(offs, chunks, h, index, g, res) ==
    IF g.panic THEN Panicked(chunks)
    ELSE [kind |-> IF res.overflow THEN "Overflow" ELSE "Ok",
          val |-> IF res.overflow THEN U64Zero ELSE res.value,
          chunks |-> update(offs, chunks, h, index, ValueChunk(res.value))]

Outcome(offs, chunks, h, index, g, res) ==
    IF g.panic THEN Panicked(chunks)
    ELSE IF res.overflow
         THEN [kind |-> "Overflow", val |-> U64Zero, chunks |-> chunks]
         ELSE [kind |-> "Ok", val |-> res.value,
               chunks |-> update(offs, chunks, h, index, ValueChunk(res.value))]

add_value(offs, chunks, h, address, amount) ==
    LET index == value_index(h, address)
        g == get(offs, chunks, h, index)
        res == IF g.panic THEN [value |-> U64Zero, overflow |-> FALSE]
               ELSE overflowing_add(ChunkValue(g.chunk), amount)
    IN Outcome(offs, chunks, h, index, g, res)

sub_value(offs, chunks, h, address, amount) ==
    LET index == value_index(h, address)
        g == get(offs, chunks, h, index)
        res == IF g.panic THEN [value |-> U64Zero, overflow |-> FALSE]
               ELSE overflowing_sub(ChunkValue(g.chunk), amount)
    IN Outcome(offs, chunks, h, index, g, res)

inc_nonce(offs, chunks, h, address) ==
    LET index == nonce_index(h, address)
        g == get(offs, chunks, h, index)
        res == IF g.panic THEN [value |-> U64Zero, overflow |-> FALSE]
               ELSE overflowing_add(ChunkValue(g.chunk), Lo(1))
    IN Outcome(offs, chunks, h, index, g, res)

----------------------------------------------------------------------------
(* The proofs a backend is loaded with *)

Heights == 1..MaxHeight

\* the addresses of a tree of height h
Addresses(h) == 0..(2 ^ h - 1)

\* the node holding the balance of `address`: `(first_leaf + account) * 4 + 2`
BalanceNode(h, address) == ((2 ^ h) + address) * 4 + 2

\* the node holding the nonce of `address`
NonceNode(h, address) == ((2 ^ h) + address) * 4 + 3

\* the nodes of the other chunks of an account: the two halves of the
\* public key and the chunk beside them (indexes 16, 17 and 9 of build_proof)
KeyNodes(h, address) ==
    {((2 ^ h) + address) * 8, ((2 ^ h) + address) * 8 + 1,
     ((2 ^ h) + address) * 4 + 1}

RECURSIVE IsBelow(_, _)
\* node n lies strictly below node g
IsBelow(n, g) == n > g /\ (n \div 2 = g \/ IsBelow(n \div 2, g))

RECURSIVE Multiproof(_, _)
\* the smallest partial tree under node g in which every node of `wanted`
\* is a leaf
Multiproof(wanted, g) ==
    IF \E n \in wanted : IsBelow(n, g)
    THEN <<Multiproof(wanted, 2 * g), Multiproof(wanted, 2 * g + 1)>>
    ELSE Leaf

\* what a proof holds of each account: nothing, its balance and nonce, or
\* all of its chunks
Coverages(h) == [Addresses(h) -> {"absent", "fields", "full"}]

Wanted(h, cov) ==
    UNION {IF cov[a] = "absent" THEN {}
           ELSE {BalanceNode(h, a), NonceNode(h, a)} \cup
                (IF cov[a] = "full" THEN KeyNodes(h, a) ELSE {}) :
           a \in Addresses(h)}

\* the trees of the proofs of at most MaxChunks chunks that cover an account
AccountProofs(h) ==
    {t \in {Multiproof(Wanted(h, cov), 1) :
                cov \in {c \in Coverages(h) : \E a \in Addresses(h) : c[a] # "absent"}} :
        NLeaves(t) <= MaxChunks}

\* the chunks a proof is filled from: balances and nonces at both ends of
\* the u64 range and at a byte boundary, and a digest
Pool ==
    << ValueChunk(Lo(0)), ValueChunk(Lo(1)), ValueChunk(Lo(255)),
       ValueChunk(Hi(1)), ValueChunk(Hi(0)), DigestChunk(Lo(2)) >>

\* n chunks of the pool, from its entry p on
PoolChunks(n, p) == [i \in 1..n |-> Pool[((i - 1 + p) % Len(Pool)) + 1]]

\* n digests, all different
DigestChunks(n) == [i \in 1..n |-> DigestChunk(Lo(i))]

\* the amounts a call is made with
Amounts == {Lo(1), U64Max}

NoCall ==
    [op |-> "none", addr |-> 0, amount |-> U64Zero, kind |-> "Ok",
     val |-> U64Zero, h256 |-> <<>>, pos |-> 0]

NotAdded == [is |-> FALSE, addr |-> 0, amount |-> U64Zero, chunk |-> <<>>]

\* `InMemoryBackend::new(offsets, db, height)`, with what the model
\* remembers of the proof
Load(h, table, chunks, nodes, al) ==
    /\ height = h
    /\ aligned = al
    /\ offsets = table
    /\ db = chunks
    /\ indexes = nodes
    /\ db0 = chunks
    /\ before = chunks
    /\ last = NoCall
    /\ added = NotAdded
    /\ incs = [a \in Addresses(h) |-> 0]
    /\ clean = TRUE
    /\ nops = 0

\* a backend loaded with the proof of tree t
LoadTree(h, t, chunks, al) ==
    Load(h, SkipCounts(t), chunks, LeafIndexes(t, 1), al)

\* a backend loaded with a well-formed proof that covers an account
Init ==
    \E h \in Heights :
        \E t \in AccountProofs(h) :
            \E p \in 0..(Len(Pool) - 1) :
                \E al \in BOOLEAN :
                    LoadTree(h, t, PoolChunks(NLeaves(t), p), al)

\* a backend loaded with a well-formed proof of any shape, its table a
\* slice of u64 words
InitProof ==
    \E h \in Heights :
        \E t \in Trees(h + 3, MaxChunks) :
            LoadTree(h, t, DigestChunks(NLeaves(t)), TRUE)

\* the sequences of length n over the set S
SeqsOf(S, n) == [1..n -> S]

\* the table is the encoding of some tree of n chunks
WellFormedTable(table, n) ==
    \E t \in Trees(n, n) : NLeaves(t) = n /\ SkipCounts(t) = table

\* a backend loaded with a skip-count table that is the encoding of no tree
\* over its chunks: a zero count, a count beyond the entries left, or
\* counts that take more chunks than there are
InitMalformed ==
    \E h \in Heights :
        \E n \in 1..(MaxChunks - 3) :
            \E len \in 0..(MaxChunks - 3) :
                \E table \in SeqsOf(0..(MaxChunks - 3), len) :
                    /\ ~WellFormedTable(table, n)
                    /\ Load(h, table, DigestChunks(n), <<>>, TRUE)

----------------------------------------------------------------------------
(* What the model knows about the loaded proof (not used by the code) *)

InSeq(x, s) == \E i \in 1..Len(s) : s[i] = x

IsLoaded(n) == InSeq(n, indexes)

\* the position (1-based) in db of the chunk of leaf n
PosOf(n) == CHOOSE i \in 1..Len(indexes) : indexes[i] = n

BalanceLoaded(a) == IsLoaded(BalanceNode(height, a))
NonceLoaded(a) == IsLoaded(NonceNode(height, a))

BalancePos(a) == PosOf(BalanceNode(height, a))
NoncePos(a) == PosOf(NonceNode(height, a))

RECURSIVE MerkleRootAt(_, _)
\* the Merkle root of the subtree at node g over the chunks `chunks`
MerkleRootAt(chunks, g) ==
    IF IsLoaded(g) THEN chunks[PosOf(g)]
    ELSE hash(MerkleRootAt(chunks, 2 * g), MerkleRootAt(chunks, 2 * g + 1))

\* the number n, and the number 2^64 - 1 - n
Small(n) == [top |-> FALSE, n |-> n]
NearMax(n) == [top |-> TRUE, n |-> n]

\* the number a numeral denotes (every numeral of the model is within
\* 65536 of an end of the u64 range)
Val(v) ==
    IF \A i \in 1..(U64Bytes - 2) : v[i] = 0
    THEN Small(v[U64Bytes - 1] * 256 + v[U64Bytes])
    ELSE IF \A i \in 1..(U64Bytes - 2) : v[i] = 255
    THEN NearMax((255 - v[U64Bytes - 1]) * 256 + (255 - v[U64Bytes]))
    ELSE Small(-1)

\* the number held little-endian in the low 8 bytes of a chunk
LE64(chunk) ==
    IF \A i \in 3..U64Bytes : chunk[i] = 0
    THEN Small(chunk[1] + 256 * chunk[2])
    ELSE IF \A i \in 3..U64Bytes : chunk[i] = 255
    THEN NearMax((255 - chunk[1]) + 256 * (255 - chunk[2]))
    ELSE Small(-1)

\* bytes 9..32 of a chunk
Upper(chunk) == SubSeq(chunk, U64Bytes + 1, ChunkBytes)

\* x + y > 2^64 - 1
SumExceeds(x, y) ==
    \/ x.top /\ y.top
    \/ x.top /\ ~y.top /\ y.n > x.n
    \/ ~x.top /\ y.top /\ x.n > y.n

\* x + y, when it does not exceed 2^64 - 1
Sum(x, y) ==
    IF x.top THEN NearMax(x.n - y.n)
    ELSE IF y.top THEN NearMax(y.n - x.n)
    ELSE Small(x.n + y.n)

\* x < y
Less(x, y) ==
    \/ ~x.top /\ y.top
    \/ ~x.top /\ ~y.top /\ x.n < y.n
    \/ x.top /\ y.top /\ x.n > y.n

\* x - y, when y <= x
Diff(x, y) ==
    IF x.top /\ y.top THEN Small(y.n - x.n)
    ELSE IF x.top THEN NearMax(x.n + y.n)
    ELSE Small(x.n - y.n)

----------------------------------------------------------------------------
(* The calls *)

Running == nops < MaxOps /\ last.kind # "Panic"

\* the successful add_value on a loaded account that `last` was, if any
JustAdded ==
    IF last.op = "add_value" /\ last.kind = "Ok" /\ BalanceLoaded(last.addr)
    THEN [is |-> TRUE, addr |-> last.addr, amount |-> last.amount,
          chunk |-> before[BalancePos(last.addr)]]
    ELSE NotAdded

Call(op, a, k, out, loaded) ==
    /\ db' = out.chunks
    /\ before' = db
    /\ last' = [op |-> op, addr |-> a, amount |-> k, kind |-> out.kind,
                val |-> out.val, h256 |-> <<>>, pos |-> 0]
    /\ added' = JustAdded
    /\ clean' = (clean /\ loaded)
    /\ nops' = nops + 1
    /\ UNCHANGED <<height, offsets, aligned, indexes, db0>>

AddValue ==
    /\ Running
    /\ \E a \in Addresses(height) : \E k \in Amounts :
          /\ Call("add_value", a, k, add_value(offsets, db, height, a, k),
                  BalanceLoaded(a))
          /\ incs' = incs

SubValue ==
    /\ Running
    /\ \E a \in Addresses(height) : \E k \in Amounts :
          /\ Call("sub_value", a, k, sub_value(offsets, db, height, a, k),
                  BalanceLoaded(a))
          /\ incs' = incs

IncNonce ==
    /\ Running
    /\ \E a \in Addresses(height) :
          LET out == inc_nonce(offsets, db, height, a) IN
          /\ Call("inc_nonce", a, U64Zero, out, NonceLoaded(a))
          /\ incs' = IF out.kind = "Ok"
                     THEN [incs EXCEPT ![a] = incs[a] + 1] ELSE incs

\* a query: it leaves the backend as it is
Query(op, n, kind, chunk, pos) ==
    /\ last' = [op |-> op, addr |-> n, amount |-> U64Zero, kind |-> kind,
                val |-> U64Zero, h256 |-> chunk, pos |-> pos]
    /\ before' = db
    /\ added' = JustAdded
    /\ nops' = nops + 1
    /\ UNCHANGED <<height, offsets, db, aligned, indexes, db0, incs, clean>>

Root ==
    /\ Running
    /\ \E r \in RootOutcomes(offsets, db, aligned) :
          Query("root", 0, IF r.panic THEN "Panic" ELSE "Ok", r.root, 0)

RECURSIVE Depth(_)
\* the depth of node n (the root, node 1, has depth 0)
Depth(n) == IF n = 1 THEN 0 ELSE 1 + Depth(n \div 2)

\* the index lookup takes for node n: n shifted up to depth height + 3
Aligned(h, n) == n * (2 ^ (h + 3 - Depth(n)))

\* `get(index)` for the node n
Get ==
    /\ Running
    /\ \E n \in 1..(2 ^ (height + 4) - 1) :
          LET g == get(offsets, db, height, Aligned(height, n)) IN
          Query("get", n, IF g.panic THEN "Panic" ELSE "Ok", g.chunk, g.offset)

Next == AddValue \/ SubValue \/ IncNonce \/ Root

Spec == Init /\ [][Next]_vars

NextProof == Get \/ Root

SpecProof == InitProof /\ [][NextProof]_vars

SpecMalformed == InitMalformed /\ [][NextProof]_vars

----------------------------------------------------------------------------
(* Properties *)

TypeOK ==
    /\ last.kind \in {"Ok", "Overflow", "Panic"}
    /\ last.op \in {"none", "add_value", "sub_value", "inc_nonce", "root", "get"}
    /\ Len(db) = Len(db0) /\ Len(before) = Len(db)
    /\ \A i \in 1..Len(db) : Len(db[i]) = ChunkBytes /\ LE64(db[i]).n >= 0
    /\ Val(last.val).n >= 0
    /\ nops \in 0..MaxOps

OnBalance == last.op \in {"add_value", "sub_value"}
OnNonce == last.op = "inc_nonce"

\* the last call was made on a leaf the proof holds
OnLoadedBalance == OnBalance /\ BalanceLoaded(last.addr)
OnLoadedNonce == OnNonce /\ NonceLoaded(last.addr)

\* the balance and the nonce of the called account when the call was made
BalanceBefore == LE64(before[BalancePos(last.addr)])
NonceBefore == LE64(before[NoncePos(last.addr)])

\* the result of the last call would leave the u64 range
LeavesRange ==
    \/ /\ last.op = "add_value" /\ BalanceLoaded(last.addr)
       /\ SumExceeds(BalanceBefore, Val(last.amount))
    \/ /\ last.op = "sub_value" /\ BalanceLoaded(last.addr)
       /\ Less(BalanceBefore, Val(last.amount))
    \/ /\ OnLoadedNonce
       /\ SumExceeds(NonceBefore, Small(1))

\* C1: add_value, sub_value and inc_nonce on a loaded leaf whose result
\* would leave the u64 range return Overflow and leave every chunk as it
\* was, so the root computed afterwards is the root computed before.
C1_OverflowLeavesStore ==
    LeavesRange =>
        /\ last.kind = "Overflow"
        /\ db = before
        /\ root(offsets, db) = root(offsets, before)

C1_Witness ==
    /\ LeavesRange
    /\ last.kind = "Overflow"
    /\ last.op = "sub_value"

\* C2: add_value, sub_value and inc_nonce on an address whose leaf the
\* proof does not hold fail with ChunkNotLoaded and change no chunk.
C2_AbsentLeafIsChunkNotLoaded ==
    (\/ OnBalance /\ ~BalanceLoaded(last.addr)
     \/ OnNonce /\ ~NonceLoaded(last.addr))
    => /\ last.kind = "ChunkNotLoaded"
       /\ db = before

\* what a call of root hands back
RootsReturned == {last.h256}

\* C3: after successful calls on loaded accounts, root yields both the
\* root over the chunks as loaded (root_pre) and the root over the chunks
\* as they are now (root_post).
C3_RootYieldsPreAndPost ==
    (clean /\ last.op = "root" /\ last.kind = "Ok") =>
        /\ MerkleRootAt(db0, 1) \in RootsReturned
        /\ MerkleRootAt(db, 1) \in RootsReturned

\* C4: on a well-formed structural proof, helper started at offset 0
\* returns the Merkle root of the tree: the chunk of a leaf, and the hash
\* of the roots of its two children for an internal node, each chunk taken
\* from its own position.
C4_HelperIsMerkleRoot ==
    (last.op = "root" /\ aligned) =>
        /\ last.kind = "Ok"
        /\ last.h256 = MerkleRootAt(db, 1)

C4_Witness ==
    /\ last.op = "root"
    /\ last.kind = "Ok"
    /\ Len(db) >= 4
    /\ offsets[1] > 1
    /\ offsets[1] < Len(db) - 1

\* C5: for a leaf n of the partial tree, at depth d <= height + 3,
\* lookup(n << (height + 3 - d)) is the number of chunks to the left of
\* n's chunk, it reads no table entry that is not there, and get returns
\* n's chunk; so different leaves have different positions.
C5_LookupIsChunkPosition ==
    (last.op = "get" /\ IsLoaded(last.addr)) =>
        /\ last.kind = "Ok"
        /\ last.pos = PosOf(last.addr) - 1
        /\ last.h256 = db[PosOf(last.addr)]

C5_Witness ==
    /\ last.op = "get"
    /\ IsLoaded(last.addr)
    /\ Depth(last.addr) = height + 3
    /\ last.addr % 2 = 1
    /\ last.pos > 1

\* the last call was a successful add_value on a loaded account
AddedToLoaded == last.op = "add_value" /\ last.kind = "Ok" /\ BalanceLoaded(last.addr)

ZeroUpper == [i \in 1..(ChunkBytes - U64Bytes) |-> 0]

\* C6 as claimed: a successful add_value returns old balance + amount,
\* the low 8 bytes of the balance chunk then hold the returned value, and
\* the other 24 bytes of the chunk are as they were before the call.
C6_AddKeepsUpperBytes ==
    AddedToLoaded =>
        /\ Val(last.val) = Sum(BalanceBefore, Val(last.amount))
        /\ LE64(db[BalancePos(last.addr)]) = Val(last.val)
        /\ Upper(db[BalancePos(last.addr)]) = Upper(before[BalancePos(last.addr)])

\* C6 as amended: a successful add_value returns old balance + amount,
\* the low 8 bytes of the balance chunk then hold the returned value, and
\* the other 24 bytes of the chunk are zero (so they are as they were
\* before the call exactly when they were zero before it).
C6_AddZeroesUpperBytes ==
    AddedToLoaded =>
        /\ Val(last.val) = Sum(BalanceBefore, Val(last.amount))
        /\ LE64(db[BalancePos(last.addr)]) = Val(last.val)
        /\ Upper(db[BalancePos(last.addr)]) = ZeroUpper

C6_Witness ==
    /\ AddedToLoaded
    /\ Upper(before[BalancePos(last.addr)]) # ZeroUpper
    /\ Val(last.val) = Small(3)

\* C7: on a loaded account with balance v, add_value(addr, k) with
\* v + k within range succeeds, and sub_value(addr, k) made right after it
\* succeeds, returns v and leaves the balance v.
C7_SubUndoesAdd ==
    /\ (last.op = "add_value" /\ BalanceLoaded(last.addr)
          /\ ~SumExceeds(BalanceBefore, Val(last.amount)))
       => last.kind = "Ok"
    /\ (added.is /\ last.op = "sub_value" /\ last.addr = added.addr
          /\ last.amount = added.amount)
       => /\ last.kind = "Ok"
          /\ Val(last.val) = LE64(added.chunk)
          /\ LE64(db[BalancePos(last.addr)]) = LE64(added.chunk)

C7_Witness ==
    /\ added.is /\ last.op = "sub_value" /\ last.addr = added.addr
    /\ last.amount = added.amount
    /\ LE64(added.chunk) = Small(255)
    /\ last.kind = "Ok"

C9_MalformedIsTypedError ==
    /\ last.op = "root" => last.kind = "MalformedProof"
    /\ last.op = "get" => last.kind # "Panic"

\* the leaves of the loaded tree
LoadedNodes == {indexes[i] : i \in 1..Len(indexes)}

====
